---- MODULE Spec2Model ----
(***************************************************************************)
(* Command safety gateway of truthgit-desktop (src-tauri/src/lib.rs).       *)
(*                                                                         *)
(* Strings are sequences of characters; a character is a one-character     *)
(* TLA+ string, except the backtick, written "BACKTICK" because the TLA+   *)
(* lexer does not accept it inside a string literal.  Option<T> is a       *)
(* sequence of length 0 (None) or 1 (Some).                                *)
(***************************************************************************)
EXTENDS Integers, Sequences, FiniteSets, TLC

VARIABLES
  SETTINGS,       \* the AppSettings held by the global RwLock
  settings_file,  \* Option<AppSettings>: what settings.json holds
  pc,             \* pc[t]: where caller t is inside its handler
  op,             \* op[t]: the handler caller t runs
  command,        \* command[t]: the free-text input (command line or claim)
  args,           \* args[t]: the handler's other parameters (argument vector, domain, settings)
  cwd,            \* cwd[t]: Option<String>, execute_shell's cwd parameter
  local,          \* local[t]: the handler's local values
  ret,            \* ret[t]: Option<Result>, what the handler returned
  spawned,        \* every Command::output() call made so far
  requests,       \* every remote request sent so far
  lock_readers,   \* the callers holding a read guard of the RwLock of SETTINGS
  audit_files,    \* audit_files[dir]: the Vec<AuditEntry> in dir/audit.json, for the files that exist
  ncalls          \* number of handler calls started

vars == <<SETTINGS, settings_file, pc, op, command, args, cwd, local, ret,
          spawned, requests, lock_readers, audit_files, ncalls>>

-----------------------------------------------------------------------------
(* Option and Result *)

None == <<>>
Some(x) == <<x>>
IsSome(o) == Len(o) = 1
Unwrap(o) == o[1]

Ok(v) == [ok |-> TRUE, val |-> v]
Err(m) == [ok |-> FALSE, val |-> m]

\* format!(fmt, a...): the template and the interpolated values
Format(fmt, a) == [fmt |-> fmt, arg |-> a]

-----------------------------------------------------------------------------
(* str primitives *)

UpperLetters ==
  <<"A","B","C","D","E","F","G","H","I","J","K","L","M",
    "N","O","P","Q","R","S","T","U","V","W","X","Y","Z">>
LowerLetters ==
  <<"a","b","c","d","e","f","g","h","i","j","k","l","m",
    "n","o","p","q","r","s","t","u","v","w","x","y","z">>

\* char::to_lowercase and char::to_uppercase on the letters A-Z, a-z
LowerOf == [c \in {UpperLetters[i] : i \in 1..26} |->
              LowerLetters[CHOOSE i \in 1..26 : UpperLetters[i] = c]]
UpperOf == [c \in {LowerLetters[i] : i \in 1..26} |->
              UpperLetters[CHOOSE i \in 1..26 : LowerLetters[i] = c]]

LowerChar(c) == IF c \in DOMAIN LowerOf THEN LowerOf[c] ELSE c

UpperChar(c) == IF c \in DOMAIN UpperOf THEN UpperOf[c] ELSE c

\* str::to_lowercase
to_lowercase(s) == [i \in 1..Len(s) |-> LowerChar(s[i])]

to_uppercase(s) == [i \in 1..Len(s) |-> UpperChar(s[i])]

\* char::is_whitespace
is_whitespace(c) == c \in {" ", "\t", "\n", "\r"}

\* str::contains(pattern)
contains(s, p) ==
  \E i \in 0..(Len(s) - Len(p)) : \A j \in 1..Len(p) : s[i + j] = p[j]

\* str::starts_with(prefix)
starts_with(s, p) ==
  /\ Len(p) <= Len(s)
  /\ \A j \in 1..Len(p) : s[j] = p[j]

\* str::trim: both ends stripped of whitespace
trim(s) ==
  LET keep == {i \in 1..Len(s) : ~is_whitespace(s[i])}
  IN  IF keep = {} THEN <<>>
      ELSE LET lo == CHOOSE i \in keep : \A k \in keep : i <= k
               hi == CHOOSE i \in keep : \A k \in keep : k <= i
           IN  SubSeq(s, lo, hi)

\* str::split_whitespace().next(): the first run of non-whitespace, if any
first_token(s) ==
  LET keep == {i \in 1..Len(s) : ~is_whitespace(s[i])}
  IN  IF keep = {} THEN None
      ELSE LET lo == CHOOSE i \in keep : \A k \in keep : i <= k
               stop == {i \in (lo + 1)..Len(s) : is_whitespace(s[i])}
               hi == IF stop = {} THEN Len(s)
                     ELSE (CHOOSE i \in stop : \A k \in stop : i <= k) - 1
           IN  Some(SubSeq(s, lo, hi))

\* slice::contains
slice_contains(tbl, x) == \E i \in DOMAIN tbl : tbl[i] = x

-----------------------------------------------------------------------------
(* The static tables *)

\* src/src-tauri/src/lib.rs:359-372
ALLOWED_TRUTHGIT_SUBCOMMANDS ==
  << <<"s","t","a","t","u","s">>,  \* "status"
     <<"v","e","r","i","f","y">>,  \* "verify"
     <<"s","a","f","e","-","v","e","r","i","f","y">>,  \* "safe-verify"
     <<"p","r","o","v","e">>,  \* "prove"
     <<"s","e","a","r","c","h">>,  \* "search"
     <<"l","o","g">>,  \* "log"
     <<"s","h","o","w">>,  \* "show"
     <<"l","i","s","t">>,  \* "list"
     <<"v","e","r","s","i","o","n">>,  \* "version"
     <<"-","-","v","e","r","s","i","o","n">>,  \* "--version"
     <<"-","-","h","e","l","p">>,  \* "--help"
     <<"h","e","l","p">> >>  \* "help"

\* src/src-tauri/src/lib.rs:375-387
BLOCKED_ARG_PATTERNS ==
  << <<";">>,  \* ";"
     <<"&","&">>,  \* "&&"
     <<"|","|">>,  \* "||"
     <<"|">>,  \* "|"
     <<"BACKTICK">>,  \* "`"
     <<"$","(">>,  \* "$("
     <<"$","{">>,  \* "${"
     <<">">>,  \* ">"
     <<"<">>,  \* "<"
     <<"\n">>,  \* "\n"
     <<"\r">> >>  \* "\r"

\* src/src-tauri/src/lib.rs:787-810 (entry 8 keeps its capital R, as in the source)
DANGEROUS_PATTERNS ==
  << <<"r","m"," ","-","r","f"," ","/">>,  \* "rm -rf /"
     <<"r","m"," ","-","r"," ","/">>,  \* "rm -r /"
     <<"s","u","d","o"," ","r","m"," ","-","r","f">>,  \* "sudo rm -rf"
     <<">"," ","/","d","e","v","/","s","d">>,  \* "> /dev/sd"
     <<"m","k","f","s">>,  \* "mkfs"
     <<"d","d"," ","i","f","=">>,  \* "dd if="
     <<":","(",")","{",":","|",":","&","}",";",":">>,  \* ":(){:|:&};:"
     <<"c","h","m","o","d"," ","-","R"," ","7","7","7"," ","/">>,  \* "chmod -R 777 /"
     <<"|"," ","b","a","s","h">>,  \* "| bash"
     <<"|"," ","s","h">>,  \* "| sh"
     <<"|","b","a","s","h">>,  \* "|bash"
     <<"|","s","h">>,  \* "|sh"
     <<"e","v","a","l"," ","$","(">>,  \* "eval $("
     <<"$","(","c","u","r","l">>,  \* "$(curl"
     <<"$","(","w","g","e","t">>,  \* "$(wget"
     <<";"," ","r","m"," ">>,  \* "; rm "
     <<"&","&"," ","r","m"," ","-","r","f">>,  \* "&& rm -rf"
     <<"|"," ","r","m"," ">>,  \* "| rm "
     <<"BACKTICK","r","m"," ">>,  \* "`rm "
     <<"s","u","d","o"," ","s","u">>,  \* "sudo su"
     <<"s","u","d","o"," ","-","i">>,  \* "sudo -i"
     <<"s","u","d","o"," ","b","a","s","h">> >>  \* "sudo bash"

\* src/src-tauri/src/lib.rs:813-846
ALLOWED_COMMAND_PREFIXES ==
  << <<"t","r","u","t","h","g","i","t">>,  \* "truthgit"
     <<"l","s">>,  \* "ls"
     <<"p","w","d">>,  \* "pwd"
     <<"c","a","t"," ">>,  \* "cat "
     <<"h","e","a","d"," ">>,  \* "head "
     <<"t","a","i","l"," ">>,  \* "tail "
     <<"g","r","e","p"," ">>,  \* "grep "
     <<"f","i","n","d"," ">>,  \* "find "
     <<"e","c","h","o"," ">>,  \* "echo "
     <<"c","d"," ">>,  \* "cd "
     <<"g","i","t"," ","s","t","a","t","u","s">>,  \* "git status"
     <<"g","i","t"," ","l","o","g">>,  \* "git log"
     <<"g","i","t"," ","d","i","f","f">>,  \* "git diff"
     <<"g","i","t"," ","b","r","a","n","c","h">>,  \* "git branch"
     <<"g","i","t"," ","s","h","o","w">>,  \* "git show"
     <<"p","i","p"," ","l","i","s","t">>,  \* "pip list"
     <<"p","i","p"," ","s","h","o","w">>,  \* "pip show"
     <<"p","y","t","h","o","n"," ","-","-","v","e","r","s","i","o","n">>,  \* "python --version"
     <<"n","o","d","e"," ","-","-","v","e","r","s","i","o","n">>,  \* "node --version"
     <<"n","p","m"," ","l","i","s","t">>,  \* "npm list"
     <<"c","a","r","g","o"," ","-","-","v","e","r","s","i","o","n">>,  \* "cargo --version"
     <<"r","u","s","t","c"," ","-","-","v","e","r","s","i","o","n">>,  \* "rustc --version"
     <<"w","h","i","c","h"," ">>,  \* "which "
     <<"w","h","e","r","e","i","s"," ">>,  \* "whereis "
     <<"f","i","l","e"," ">>,  \* "file "
     <<"w","c"," ">>,  \* "wc "
     <<"d","a","t","e">>,  \* "date"
     <<"w","h","o","a","m","i">>,  \* "whoami"
     <<"h","o","s","t","n","a","m","e">>,  \* "hostname"
     <<"u","n","a","m","e">>,  \* "uname"
     <<"e","n","v">>,  \* "env"
     <<"p","r","i","n","t","e","n","v">> >>  \* "printenv"

\* src/src-tauri/src/lib.rs:855
SHELL_OPERATORS ==
  << <<";">>,  \* ";"
     <<"&","&">>,  \* "&&"
     <<"|","|">>,  \* "||"
     <<"|">>,  \* "|"
     <<"BACKTICK">>,  \* "`"
     <<"$","(">>,  \* "$("
     <<"$","{">>,  \* "${"
     <<"\n">>,  \* "\n"
     <<"\r">> >>  \* "\r"

DEV_NULL == <<">"," ","/","d","e","v","/","n","u","l","l">>  \* "> /dev/null", lib.rs:882

-----------------------------------------------------------------------------
(* Structured argument validator *)

MinOf(S) == CHOOSE i \in S : \A k \in S : i <= k

\* validate_truthgit_args with the pattern test written as equality
validate_truthgit_args_equal(a) ==
  IF Len(a) = 0 THEN Err(Format("No subcommand provided", <<>>))
  ELSE IF ~slice_contains(ALLOWED_TRUTHGIT_SUBCOMMANDS, a[1])
  THEN Err(Format("BLOCKED: TruthGit subcommand '{}' is not allowed. Allowed: {:?}",
                  <<a[1], ALLOWED_TRUTHGIT_SUBCOMMANDS>>))
  ELSE LET Hit(i) == {j \in DOMAIN BLOCKED_ARG_PATTERNS : a[i] = BLOCKED_ARG_PATTERNS[j]}
           bad == {i \in 1..Len(a) : Hit(i) # {}}
       IN  IF bad = {} THEN Ok(<<>>)
           ELSE Err(Format("BLOCKED: Argument contains forbidden pattern '{}'. Shell injection attempt detected.",
                           <<BLOCKED_ARG_PATTERNS[MinOf(Hit(MinOf(bad)))]>>))

\* validate_truthgit_args with the pattern scan moved before the allowlist test
validate_truthgit_args_scan_first(a) ==
  IF Len(a) = 0 THEN Err(Format("No subcommand provided", <<>>))
  ELSE LET Hit(i) == {j \in DOMAIN BLOCKED_ARG_PATTERNS :
                        contains(a[i], BLOCKED_ARG_PATTERNS[j])}
           bad == {i \in 1..Len(a) : Hit(i) # {}}
       IN  IF bad # {}
           THEN Err(Format("BLOCKED: Argument contains forbidden pattern '{}'. Shell injection attempt detected.",
                           <<BLOCKED_ARG_PATTERNS[MinOf(Hit(MinOf(bad)))]>>))
           ELSE IF ~slice_contains(ALLOWED_TRUTHGIT_SUBCOMMANDS, a[1])
           THEN Err(Format("BLOCKED: TruthGit subcommand '{}' is not allowed. Allowed: {:?}",
                           <<a[1], ALLOWED_TRUTHGIT_SUBCOMMANDS>>))
           ELSE Ok(<<>>)

\* validate_truthgit_args taking the allowlist entries as prefixes of the
\* subcommand
validate_truthgit_args_prefix(a) ==
  IF Len(a) = 0 THEN Err(Format("No subcommand provided", <<>>))
  ELSE IF ~\E k \in DOMAIN ALLOWED_TRUTHGIT_SUBCOMMANDS :
             starts_with(a[1], ALLOWED_TRUTHGIT_SUBCOMMANDS[k])
  THEN Err(Format("BLOCKED: TruthGit subcommand '{}' is not allowed. Allowed: {:?}",
                  <<a[1], ALLOWED_TRUTHGIT_SUBCOMMANDS>>))
  ELSE LET Hit(i) == {j \in DOMAIN BLOCKED_ARG_PATTERNS :
                        contains(a[i], BLOCKED_ARG_PATTERNS[j])}
           bad == {i \in 1..Len(a) : Hit(i) # {}}
       IN  IF bad = {} THEN Ok(<<>>)
           ELSE Err(Format("BLOCKED: Argument contains forbidden pattern '{}'. Shell injection attempt detected.",
                           <<BLOCKED_ARG_PATTERNS[MinOf(Hit(MinOf(bad)))]>>))

validate_truthgit_args(a) ==
  IF Len(a) = 0 THEN Err(Format("No subcommand provided", <<>>))
  ELSE IF ~slice_contains(ALLOWED_TRUTHGIT_SUBCOMMANDS, a[1])
  THEN Err(Format("BLOCKED: TruthGit subcommand '{}' is not allowed. Allowed: {:?}",
                  <<a[1], ALLOWED_TRUTHGIT_SUBCOMMANDS>>))
  ELSE LET Hit(i) == {j \in DOMAIN BLOCKED_ARG_PATTERNS :
                        contains(a[i], BLOCKED_ARG_PATTERNS[j])}
           bad == {i \in 1..Len(a) : Hit(i) # {}}
       IN  IF bad = {} THEN Ok(<<>>)
           ELSE Err(Format("BLOCKED: Argument contains forbidden pattern '{}'. Shell injection attempt detected.",
                           <<BLOCKED_ARG_PATTERNS[MinOf(Hit(MinOf(bad)))]>>))

-----------------------------------------------------------------------------
(* Shell string validator *)

\* is_command_allowed without the trim
is_command_allowed_untrimmed(cmd) ==
  IF \E i \in DOMAIN SHELL_OPERATORS : contains(cmd, SHELL_OPERATORS[i])
  THEN FALSE
  ELSE \E i \in DOMAIN ALLOWED_COMMAND_PREFIXES :
         \/ starts_with(cmd, ALLOWED_COMMAND_PREFIXES[i])
         \/ cmd = trim(ALLOWED_COMMAND_PREFIXES[i])

\* is_command_allowed without the operator scan
is_command_allowed_prefix_only(cmd) ==
  LET cmd_trimmed == trim(cmd)
  IN  \E i \in DOMAIN ALLOWED_COMMAND_PREFIXES :
        \/ starts_with(cmd_trimmed, ALLOWED_COMMAND_PREFIXES[i])
        \/ cmd_trimmed = trim(ALLOWED_COMMAND_PREFIXES[i])

is_command_allowed(cmd) ==
  LET cmd_trimmed == trim(cmd)
  IN  IF \E i \in DOMAIN SHELL_OPERATORS : contains(cmd_trimmed, SHELL_OPERATORS[i])
      THEN FALSE
      ELSE \E i \in DOMAIN ALLOWED_COMMAND_PREFIXES :
             \/ starts_with(cmd_trimmed, ALLOWED_COMMAND_PREFIXES[i])
             \/ cmd_trimmed = trim(ALLOWED_COMMAND_PREFIXES[i])

\* contains_dangerous_pattern with the exception looked up in the command as
\* given instead of in its lower-case form
contains_dangerous_pattern_exact_exception(cmd) ==
  LET cmd_lower == to_lowercase(cmd)
      hit == {i \in DOMAIN DANGEROUS_PATTERNS : contains(cmd_lower, DANGEROUS_PATTERNS[i])}
  IN  IF contains(cmd, DEV_NULL) THEN None
      ELSE IF hit = {} THEN None
      ELSE Some(DANGEROUS_PATTERNS[MinOf(hit)])

contains_dangerous_pattern(cmd) ==
  LET cmd_lower == to_lowercase(cmd)
      hit == {i \in DOMAIN DANGEROUS_PATTERNS : contains(cmd_lower, DANGEROUS_PATTERNS[i])}
  IN  IF contains(cmd_lower, DEV_NULL) THEN None
      ELSE IF hit = {} THEN None
      ELSE Some(DANGEROUS_PATTERNS[MinOf(hit)])

\* command.split_whitespace().next().unwrap_or(&command)
leading_token(cmd) ==
  IF IsSome(first_token(cmd)) THEN Unwrap(first_token(cmd)) ELSE cmd

\* command_check consulting the settings: outside of the local mode every
\* command is reported as safe
command_check_settings(cmd) ==
  IF \/ SETTINGS.api_mode # "local"
     \/ (~IsSome(contains_dangerous_pattern(cmd)) /\ is_command_allowed(cmd))
  THEN [is_dangerous |-> FALSE, warning |-> None]
  ELSE [is_dangerous |-> TRUE,
        warning |-> Some(Format("BLOCKED: Command '{}' is not permitted.", <<cmd>>))]

\* the CommandCheck that check_command_safety returns
command_check(cmd) ==
  LET found == contains_dangerous_pattern(cmd)
  IN  IF IsSome(found)
      THEN [is_dangerous |-> TRUE,
            warning |-> Some(Format("BLOCKED: Command contains dangerous pattern '{}'",
                                    <<Unwrap(found)>>))]
      ELSE IF ~is_command_allowed(cmd)
      THEN [is_dangerous |-> TRUE,
            warning |-> Some(Format("Command '{}' is not in the allowed list. Only safe commands are permitted.",
                                    <<leading_token(cmd)>>))]
      ELSE [is_dangerous |-> FALSE, warning |-> None]

\* the gate without the allowlist: only the dangerous patterns are refused
execute_shell_gate_patterns_only(cmd) ==
  LET found == contains_dangerous_pattern(cmd)
  IN  IF IsSome(found)
      THEN Some(Format("BLOCKED: Command contains dangerous pattern '{}'. Execution denied.",
                       <<Unwrap(found)>>))
      ELSE None

\* the security gate at the head of execute_shell: None when the command passes
execute_shell_gate(cmd) ==
  LET found == contains_dangerous_pattern(cmd)
  IN  IF IsSome(found)
      THEN Some(Format("BLOCKED: Command contains dangerous pattern '{}'. Execution denied.",
                       <<Unwrap(found)>>))
      ELSE IF ~is_command_allowed(cmd)
      THEN Some(Format("BLOCKED: Command '{}' is not in the allowed list. Only truthgit and safe read-only commands are permitted.",
                       <<leading_token(cmd)>>))
      ELSE None

-----------------------------------------------------------------------------
(* Settings and paths *)

\* Path::parent on a '/'-separated path
path_parent(p) ==
  LET Body(q) == LET keep == {i \in 1..Len(q) : q[i] # "/"}
                 IN  IF keep = {} THEN <<>>
                     ELSE SubSeq(q, 1, CHOOSE i \in keep : \A k \in keep : k <= i)
      body == Body(p)
      seps == {i \in 1..Len(body) : body[i] = "/"}
  IN  IF body = <<>> THEN None
      ELSE IF seps = {} THEN Some(<<>>)
      ELSE LET k == CHOOSE i \in seps : \A j \in seps : j <= i
               pre == Body(SubSeq(body, 1, k))
           IN  IF pre = <<>> THEN Some(<<"/">>) ELSE Some(pre)

\* default_working_dir without .parent(): the repository directory itself
default_working_dir_repo(s) == s.truth_repo_path

\* the closure execute_shell runs on a settings snapshot when cwd is None
default_working_dir(s) ==
  IF IsSome(path_parent(s.truth_repo_path))
  THEN Unwrap(path_parent(s.truth_repo_path))
  ELSE <<".">>

\* AppSettings, reduced to the fields the handlers below read
AppSettings(path, mode) == [truth_repo_path |-> path, api_mode |-> mode]

\* impl Default for AppSettings, with the home directory "/h"
DefaultSettings == AppSettings(<<"/","h","/",".","t","r","u","t","h">>, "local")

\* load_settings_from_file().unwrap_or_default()
load_settings(file) == IF IsSome(file) THEN Unwrap(file) ELSE DefaultSettings

-----------------------------------------------------------------------------
(* What the operating system may answer to Command::output() *)

\* started = FALSE: the process could not be created.  code = None: the
\* process was ended by a signal.  utf8: whether the captured bytes decode.
Outcomes ==
  {[started |-> FALSE, code |-> None, utf8 |-> TRUE]} \cup
  {[started |-> TRUE, code |-> c, utf8 |-> u] : c \in {Some(0), Some(1), None}, u \in BOOLEAN}

\* ExitStatus::success
status_success(o) == o.code = Some(0)

\* shell_output reporting a failed run as an error, as run_truthgit_command does
shell_output_exit_error(o) ==
  IF ~o.started THEN Err(Format("Failed to execute command: {}", <<"io error">>))
  ELSE IF ~status_success(o)
  THEN Err(Format("Failed to execute command: {}", <<"exit status">>))
  ELSE Ok([stdout |-> IF o.utf8 THEN "text" ELSE "text with U+FFFD",
           stderr |-> IF o.utf8 THEN "text" ELSE "text with U+FFFD",
           exit_code |-> 0,
           success |-> TRUE])

\* the tail of execute_shell, from the result of Command::output()
shell_output(o) ==
  IF ~o.started THEN Err(Format("Failed to execute command: {}", <<"io error">>))
  ELSE Ok([stdout |-> IF o.utf8 THEN "text" ELSE "text with U+FFFD",
           stderr |-> IF o.utf8 THEN "text" ELSE "text with U+FFFD",
           exit_code |-> IF IsSome(o.code) THEN Unwrap(o.code) ELSE -1,
           success |-> status_success(o)])

\* the tail of run_truthgit_command and verify_claim_local
tool_output(o, failed_fmt) ==
  IF ~o.started THEN Err(Format("Failed to run truthgit: {}", <<"io error">>))
  ELSE IF status_success(o)
  THEN IF o.utf8 THEN Ok("text") ELSE Err(Format("Invalid UTF-8 output: {}", <<"utf8 error">>))
  ELSE Err(Format(failed_fmt, <<IF o.utf8 THEN "text" ELSE "text with U+FFFD">>))

-----------------------------------------------------------------------------
(* State *)

Threads == {"t1", "t2"}

\* the read guard bound to a variable of the handler: it lives until the
\* handler returns
drop_guard_at_return(t, held) == held

\* lib.rs:176 and lib.rs:967: the read guard goes out of scope at the end of
\* the block, or of the closure, that took it
drop_guard(t, held) == held \ {t}

\* working_dir: execute_shell's working_dir; seen: the settings the call has
\* read; accepted: the input a validator passed; output: the result of
\* Command::output(); entries: the Vec add_audit_entry has read
NoLocal ==
  [working_dir |-> None, seen |-> <<>>, accepted |-> None, output |-> None,
   entries |-> None]

Init ==
  /\ settings_file = None
  /\ SETTINGS = load_settings(settings_file)
  /\ pc = [t \in Threads |-> "idle"]
  /\ op = [t \in Threads |-> "none"]
  /\ command = [t \in Threads |-> <<>>]
  /\ args = [t \in Threads |-> <<>>]
  /\ cwd = [t \in Threads |-> None]
  /\ local = [t \in Threads |-> NoLocal]
  /\ ret = [t \in Threads |-> None]
  /\ spawned = {}
  /\ requests = {}
  /\ lock_readers = {}
  /\ audit_files = [d \in {} |-> <<>>]
  /\ ncalls = 0

\* a handler is entered: its parameters are bound
Enter(t, name, c, a, d) ==
  /\ pc[t] = "idle"
  /\ op' = [op EXCEPT ![t] = name]
  /\ command' = [command EXCEPT ![t] = c]
  /\ args' = [args EXCEPT ![t] = a]
  /\ cwd' = [cwd EXCEPT ![t] = d]
  /\ ncalls' = ncalls + 1

\* a handler returns r
Leave(t, r) ==
  /\ ret' = [ret EXCEPT ![t] = Some(r)]
  /\ pc' = [pc EXCEPT ![t] = "done"]

\* the literal arguments the handlers pass
ARG_C == <<"-","c">>  \* "-c"
ARG_VERIFY == <<"v","e","r","i","f","y">>  \* "verify"
ARG_SAFE_VERIFY == <<"s","a","f","e","-","v","e","r","i","f","y">>  \* "safe-verify"
ARG_DOMAIN == <<"-","-","d","o","m","a","i","n">>  \* "--domain"
ARG_RISK == <<"-","-","r","i","s","k">>  \* "--risk"
ARG_JSON == <<"-","-","j","s","o","n">>  \* "--json"

\* one Command::output() call by the handler t runs: the program, its argument
\* vector and directory, with the caller-supplied text that went into it, the
\* input a validator accepted in this call, the settings the call has read and
\* the settings at the time of the spawn
Spawn(t, program, argv, dir, input) ==
  spawned' = spawned \cup
    {[by |-> op[t], program |-> program, argv |-> argv, current_dir |-> dir,
      input |-> input, accepted |-> local[t].accepted, seen |-> local[t].seen,
      cwd |-> cwd[t], at_spawn |-> SETTINGS]}

-----------------------------------------------------------------------------
(* check_command_safety *)

check_command_safety(t, c) ==
  /\ Enter(t, "check_command_safety", c, <<>>, None)
  /\ Leave(t, Ok(command_check(c)))
  /\ UNCHANGED <<SETTINGS, settings_file, local, spawned, requests, lock_readers,
                 audit_files>>

-----------------------------------------------------------------------------
(* execute_shell *)

\* lib.rs:925-958: the gate, then the cwd parameter if one was given
execute_shell(t, c, d) ==
  /\ Enter(t, "execute_shell", c, <<>>, d)
  /\ LET blocked == execute_shell_gate(c)
     IN IF IsSome(blocked)
     THEN /\ Leave(t, Err(Unwrap(blocked)))
          /\ UNCHANGED local
     ELSE /\ local' = [local EXCEPT ![t].working_dir = d,
                                    ![t].accepted = Some(<<c>>)]
          /\ pc' = [pc EXCEPT ![t] = IF IsSome(d) THEN "spawn" ELSE "read_settings"]
          /\ UNCHANGED ret
  /\ UNCHANGED <<SETTINGS, settings_file, spawned, requests, lock_readers,
                 audit_files>>

\* lib.rs:958-969: cwd is None, the closure reads SETTINGS under the read lock
\* (the lock is never poisoned: no writer can panic while holding it, so
\* SETTINGS.read().ok() is always Some)
execute_shell_read_settings(t) ==
  /\ pc[t] = "read_settings"
  /\ op[t] = "execute_shell"
  /\ local' = [local EXCEPT ![t].working_dir = Some(default_working_dir(SETTINGS)),
                            ![t].seen = Append(@, SETTINGS)]
  /\ lock_readers' = drop_guard(t, lock_readers \cup {t})
  /\ pc' = [pc EXCEPT ![t] = "spawn"]
  /\ UNCHANGED <<SETTINGS, settings_file, op, command, args, cwd, ret, spawned,
                 requests, audit_files, ncalls>>

\* spawn_dir reading SETTINGS again at the spawn
spawn_dir_reread(t) ==
  IF IsSome(cwd[t]) THEN Unwrap(cwd[t]) ELSE default_working_dir(SETTINGS)

\* the directory the shell is started in
spawn_dir(t) == Unwrap(local[t].working_dir)

\* lib.rs:971-986: bash -c <command> in working_dir, and the result
execute_shell_spawn(t) ==
  /\ pc[t] = "spawn"
  /\ op[t] = "execute_shell"
  /\ Spawn(t, "bash", <<ARG_C, command[t]>>, Some(spawn_dir(t)), <<command[t]>>)
  /\ \E o \in Outcomes :
       /\ local' = [local EXCEPT ![t].output = Some(o)]
       /\ Leave(t, shell_output(o))
  /\ lock_readers' = lock_readers \ {t}
  /\ UNCHANGED <<SETTINGS, settings_file, op, command, args, cwd, requests,
                 audit_files, ncalls>>

-----------------------------------------------------------------------------
(* run_truthgit_command *)

\* lib.rs:421-424
run_truthgit_command(t, a) ==
  /\ Enter(t, "run_truthgit_command", <<>>, a, None)
  /\ LET checked == validate_truthgit_args(a)
     IN IF checked.ok
     THEN /\ local' = [local EXCEPT ![t].accepted = Some(a)]
          /\ pc' = [pc EXCEPT ![t] = "spawn"]
          /\ UNCHANGED ret
     ELSE /\ Leave(t, Err(checked.val))
          /\ UNCHANGED local
  /\ UNCHANGED <<SETTINGS, settings_file, spawned, requests, lock_readers,
                 audit_files>>

\* lib.rs:426-437
run_truthgit_command_spawn(t) ==
  /\ pc[t] = "spawn"
  /\ op[t] = "run_truthgit_command"
  /\ Spawn(t, "truthgit", args[t], None, args[t])
  /\ \E o \in Outcomes :
       /\ local' = [local EXCEPT ![t].output = Some(o)]
       /\ Leave(t, tool_output(o, "TruthGit error: {}"))
  /\ UNCHANGED <<SETTINGS, settings_file, op, command, args, cwd, requests,
                 lock_readers, audit_files, ncalls>>

-----------------------------------------------------------------------------
(* verify_claim_local *)

\* lib.rs:441: the handler is entered with claim and domain
verify_claim_local(t, claim, domain) ==
  /\ Enter(t, "verify_claim_local", claim, <<domain>>, None)
  /\ pc' = [pc EXCEPT ![t] = "spawn"]
  /\ UNCHANGED <<SETTINGS, settings_file, local, ret, spawned, requests,
                 lock_readers, audit_files>>

\* lib.rs:442-453: truthgit verify <claim> --domain <domain> --json
verify_claim_local_spawn(t) ==
  /\ pc[t] = "spawn"
  /\ op[t] = "verify_claim_local"
  /\ Spawn(t, "truthgit", <<ARG_VERIFY, command[t], ARG_DOMAIN, args[t][1], ARG_JSON>>,
           None, <<command[t], args[t][1]>>)
  /\ \E o \in Outcomes :
       /\ local' = [local EXCEPT ![t].output = Some(o)]
       /\ Leave(t, tool_output(o, "Verification failed: {}"))
  /\ UNCHANGED <<SETTINGS, settings_file, op, command, args, cwd, requests,
                 lock_readers, audit_files, ncalls>>

-----------------------------------------------------------------------------
(* governance_verify *)

\* lib.rs:167-176: api_mode and api_url are cloned under the read lock
governance_verify(t, claim, domain, risk_profile) ==
  /\ Enter(t, "governance_verify", claim, <<domain, risk_profile>>, None)
  /\ local' = [local EXCEPT ![t].seen = Append(@, SETTINGS)]
  /\ lock_readers' = drop_guard(t, lock_readers \cup {t})
  /\ pc' = [pc EXCEPT ![t] = "dispatch"]
  /\ UNCHANGED <<SETTINGS, settings_file, ret, spawned, requests, audit_files>>

\* the outcome of the remote call: no connection, a body that does not parse,
\* a response with data, a response with an error
RemoteOutcomes == {"unreachable", "unparsable", "data", "error"}

remote_result(o) ==
  CASE o = "unreachable" -> Err(Format("Failed to connect to TruthGit API: {}", <<"error">>))
    [] o = "unparsable" -> Err(Format("Failed to parse response: {}", <<"error">>))
    [] o = "data" -> Ok("GovernanceResult")
    [] OTHER -> Err(Format("{}", <<"error">>))

\* governance_verify_local's result (lib.rs:216-250)
governance_local_result(o, parses) ==
  IF ~o.started
  THEN Err(Format("Failed to run truthgit CLI: {}. Is TruthGit installed?", <<"io error">>))
  ELSE IF status_success(o)
  THEN IF parses THEN Ok("GovernanceResult")
       ELSE Err(Format("Failed to parse TruthGit output: {}", <<"json error">>))
  ELSE Err(Format("TruthGit verification failed: {}",
                  <<IF o.utf8 THEN "text" ELSE "text with U+FFFD">>))

\* lib.rs:179-207 and 210-251
governance_verify_dispatch(t) ==
  /\ pc[t] = "dispatch"
  /\ op[t] = "governance_verify"
  /\ IF local[t].seen[1].api_mode = "local"
     THEN /\ Spawn(t, "truthgit",
                   <<ARG_SAFE_VERIFY, command[t], ARG_DOMAIN, args[t][1], ARG_RISK,
                     args[t][2], ARG_JSON>>,
                   None, <<command[t], args[t][1], args[t][2]>>)
          /\ \E o \in Outcomes, parses \in BOOLEAN :
               /\ local' = [local EXCEPT ![t].output = Some(o)]
               /\ Leave(t, governance_local_result(o, parses))
          /\ UNCHANGED requests
     ELSE /\ requests' = requests \cup
               {[by |-> t, api_mode |-> local[t].seen[1].api_mode,
                 claim |-> command[t]]}
          /\ \E o \in RemoteOutcomes : Leave(t, remote_result(o))
          /\ UNCHANGED <<spawned, local>>
  /\ lock_readers' = lock_readers \ {t}
  /\ UNCHANGED <<SETTINGS, settings_file, op, command, args, cwd, audit_files, ncalls>>

-----------------------------------------------------------------------------
(* update_settings *)

\* lib.rs:85: save_settings_to_file(&new_settings)?, which may fail
update_settings(t, new_settings) ==
  /\ Enter(t, "update_settings", <<>>, <<new_settings>>, None)
  /\ \/ /\ settings_file' = Some(new_settings)
        /\ pc' = [pc EXCEPT ![t] = "write_lock"]
        /\ UNCHANGED ret
     \/ /\ Leave(t, Err(Format("Failed to write settings: {}", <<"io error">>)))
        /\ UNCHANGED settings_file
  /\ UNCHANGED <<SETTINGS, local, spawned, requests, lock_readers, audit_files>>

\* lib.rs:86-88: SETTINGS.write() waits until no read guard is held, then
\* *settings = new_settings and the write guard is dropped at the return
update_settings_write(t) ==
  /\ pc[t] = "write_lock"
  /\ op[t] = "update_settings"
  /\ lock_readers = {}
  /\ SETTINGS' = args[t][1]
  /\ Leave(t, Ok(<<>>))
  /\ UNCHANGED <<settings_file, op, command, args, cwd, local, spawned, requests,
                 lock_readers, audit_files, ncalls>>

-----------------------------------------------------------------------------
(* get_settings *)

\* lib.rs:78-81: the clone is made under the read guard, which is dropped at
\* the return
get_settings(t) ==
  /\ Enter(t, "get_settings", <<>>, <<>>, None)
  /\ Leave(t, Ok(SETTINGS))
  /\ UNCHANGED <<SETTINGS, settings_file, local, spawned, requests, lock_readers,
                 audit_files>>

-----------------------------------------------------------------------------
(* The audit trail *)

\* lib.rs:527: get_truth_path() clones truth_repo_path under the read guard,
\* which is dropped when get_truth_path returns
add_audit_entry(t, entry) ==
  /\ Enter(t, "add_audit_entry", <<>>, <<entry>>, None)
  /\ local' = [local EXCEPT ![t].seen = Append(@, SETTINGS)]
  /\ pc' = [pc EXCEPT ![t] = "read_audit"]
  /\ UNCHANGED <<SETTINGS, settings_file, ret, spawned, requests, lock_readers,
                 audit_files>>

\* the directory of the audit file of the call
audit_dir(t) == local[t].seen[1].truth_repo_path

\* audit_file.exists()
audit_file_exists(dir) == dir \in DOMAIN audit_files

\* fs::write(&audit_file, content): the files after the write
fs_write(dir, entries) ==
  [d \in DOMAIN audit_files \cup {dir} |-> IF d = dir THEN entries ELSE audit_files[d]]

\* lib.rs:530-536: the entries of the file, none when there is no file
add_audit_entry_read(t) ==
  /\ pc[t] = "read_audit"
  /\ op[t] = "add_audit_entry"
  /\ IF audit_file_exists(audit_dir(t))
     THEN \/ /\ local' = [local EXCEPT ![t].entries = Some(audit_files[audit_dir(t)])]
             /\ pc' = [pc EXCEPT ![t] = "write_audit"]
             /\ UNCHANGED ret
          \/ /\ Leave(t, Err(Format("Failed to read audit file: {}", <<"io error">>)))
             /\ UNCHANGED local
     ELSE /\ local' = [local EXCEPT ![t].entries = Some(<<>>)]
          /\ pc' = [pc EXCEPT ![t] = "write_audit"]
          /\ UNCHANGED ret
  /\ UNCHANGED <<SETTINGS, settings_file, op, command, args, cwd, spawned, requests,
                 lock_readers, audit_files, ncalls>>

\* entries.insert(0, entry)
insert_first(entries, entry) == <<entry>> \o entries

\* lib.rs:538-547: the entry goes first, the file is written whole
add_audit_entry_write(t) ==
  /\ pc[t] = "write_audit"
  /\ op[t] = "add_audit_entry"
  /\ \/ /\ audit_files' =
             fs_write(audit_dir(t), insert_first(Unwrap(local[t].entries), args[t][1]))
        /\ Leave(t, Ok(<<>>))
     \/ /\ Leave(t, Err(Format("Failed to write audit file: {}", <<"io error">>)))
        /\ UNCHANGED audit_files
  /\ UNCHANGED <<SETTINGS, settings_file, op, command, args, cwd, local, spawned,
                 requests, lock_readers, ncalls>>

\* lib.rs:509: get_truth_path()
get_audit_trail(t) ==
  /\ Enter(t, "get_audit_trail", <<>>, <<>>, None)
  /\ local' = [local EXCEPT ![t].seen = Append(@, SETTINGS)]
  /\ pc' = [pc EXCEPT ![t] = "read_audit"]
  /\ UNCHANGED <<SETTINGS, settings_file, ret, spawned, requests, lock_readers,
                 audit_files>>

\* lib.rs:512-523: the entries of the file, none when there is no file
get_audit_trail_read(t) ==
  /\ pc[t] = "read_audit"
  /\ op[t] = "get_audit_trail"
  /\ IF audit_file_exists(audit_dir(t))
     THEN \/ Leave(t, Ok(audit_files[audit_dir(t)]))
          \/ Leave(t, Err(Format("Failed to read audit file: {}", <<"io error">>)))
     ELSE Leave(t, Ok(<<>>))
  /\ UNCHANGED <<SETTINGS, settings_file, op, command, args, cwd, local, spawned,
                 requests, lock_readers, audit_files, ncalls>>

-----------------------------------------------------------------------------
(* The caller takes the result; the thread is free for the next call *)

Return(t) ==
  /\ pc[t] = "done"
  /\ pc' = [pc EXCEPT ![t] = "idle"]
  /\ op' = [op EXCEPT ![t] = "none"]
  /\ command' = [command EXCEPT ![t] = <<>>]
  /\ args' = [args EXCEPT ![t] = <<>>]
  /\ cwd' = [cwd EXCEPT ![t] = None]
  /\ local' = [local EXCEPT ![t] = NoLocal]
  /\ ret' = [ret EXCEPT ![t] = None]
  /\ UNCHANGED <<SETTINGS, settings_file, spawned, requests, lock_readers,
                 audit_files, ncalls>>

-----------------------------------------------------------------------------
(* Inputs *)

Range(f) == {f[i] : i \in DOMAIN f}

S_LS == <<"l","s">>  \* "ls"
S_ECHO == <<"e","c","h","o"," ">>  \* "echo "
S_GIT_STATUS == <<"g","i","t"," ","s","t","a","t","u","s">>  \* "git status"
S_RM == <<"r","m"," ">>  \* "rm "
S_X == <<"x">>  \* "x"
S_D == <<"d">>  \* "d"
S_MEDIUM == <<"m","e","d","i","u","m">>  \* "medium"
S_CLAIM == <<"c","l","a","i","m">>  \* "claim"
S_INIT == <<"i","n","i","t">>  \* "init"
S_TMP == <<"/","t","m","p">>  \* "/tmp"
S_LS_RM == <<"l","s",";"," ","r","m"," ","x">>  \* "ls; rm x"
S_TO_DEV_NULL == <<" ",">"," ","/","d","e","v","/","n","u","l","l">>  \* " > /dev/null"
S_TO_DEV_NULL_UPPER == <<" ",">"," ","/","D","E","V","/","N","U","L","L">>  \* " > /DEV/NULL"
S_W_T == <<"/","w","/","t">>  \* "/w/t"
S_ROOT == <<"/">>  \* "/"

\* longest run of whitespace put before and after a command line
MaxPad == 1
\* longest argument vector
MaxArgs == 2
\* handler calls in one run of the concurrent specification
MaxCalls == 2

PadChars == {" ", "\n"}
\* runs of one padding character, up to MaxPad long
Pads == {<<>>} \cup {[i \in 1..k |-> c] : c \in PadChars, k \in 1..MaxPad}

\* a table entry as written, in lower case and in upper case
Casings(p) == {p, to_lowercase(p), to_uppercase(p)}

Heads == {<<>>, S_LS, S_ECHO, S_GIT_STATUS, S_RM}
Mids ==
  {<<>>, S_X} \cup Range(SHELL_OPERATORS)
    \cup UNION {Casings(p) : p \in Range(DANGEROUS_PATTERNS)}
Tails == {<<>>, S_TO_DEV_NULL, S_TO_DEV_NULL_UPPER}

\* command lines: padding, a leading word, a table entry or operator, a tail
ShellInputs ==
  {l \o h \o m \o t \o r : l \in Pads, h \in Heads, m \in Mids, t \in Tails, r \in Pads}

\* arguments: the allowed subcommands, plain words, and every forbidden
\* pattern inside a word and at the end of an allowed subcommand
ArgStrings ==
  Range(ALLOWED_TRUTHGIT_SUBCOMMANDS) \cup {<<>>, S_INIT, S_CLAIM}
    \cup {S_CLAIM \o p \o S_X : p \in Range(BLOCKED_ARG_PATTERNS)}
    \cup {ARG_VERIFY \o p : p \in Range(BLOCKED_ARG_PATTERNS)}
ArgVectors == UNION {[1..k -> ArgStrings] : k \in 0..MaxArgs}

\* inputs of the concurrent specification
Commands == {S_LS, S_LS_RM}
Directories == {None, Some(S_TMP)}
Claims == {S_X, S_LS_RM}
SmallArgVectors == {<<>>, <<ARG_VERIFY, S_CLAIM>>, <<ARG_VERIFY, S_LS_RM>>, <<S_INIT>>}
\* api_mode is a free String: "Local" is a value update_settings accepts
SettingsValues ==
  {DefaultSettings, AppSettings(S_W_T, "remote"), AppSettings(S_ROOT, "Local")}
Entries == {"e1", "e2"}

-----------------------------------------------------------------------------
(* Specifications *)

\* all handlers, called concurrently by the threads of the webview
Next ==
  \E t \in Threads :
    \/ /\ ncalls < MaxCalls
       /\ \/ \E c \in Commands : check_command_safety(t, c)
          \/ \E c \in Commands, d \in Directories : execute_shell(t, c, d)
          \/ \E a \in SmallArgVectors : run_truthgit_command(t, a)
          \/ \E c \in Claims : verify_claim_local(t, c, S_D)
          \/ \E c \in Claims : governance_verify(t, c, S_D, S_MEDIUM)
          \/ \E s \in SettingsValues : update_settings(t, s)
          \/ get_settings(t)
          \/ \E e \in Entries : add_audit_entry(t, e)
          \/ get_audit_trail(t)
    \/ execute_shell_read_settings(t)
    \/ execute_shell_spawn(t)
    \/ run_truthgit_command_spawn(t)
    \/ verify_claim_local_spawn(t)
    \/ governance_verify_dispatch(t)
    \/ update_settings_write(t)
    \/ add_audit_entry_read(t)
    \/ add_audit_entry_write(t)
    \/ get_audit_trail_read(t)
    \/ Return(t)

Spec == Init /\ [][Next]_vars

\* one call of the shell validator or of execute_shell on any command line
NextShell ==
  \/ /\ ncalls = 0
     /\ \E c \in ShellInputs :
          \/ check_command_safety("t1", c)
          \/ \E d \in Directories : execute_shell("t1", c, d)
  \/ execute_shell_read_settings("t1")
  \/ execute_shell_spawn("t1")

SpecShell == Init /\ [][NextShell]_vars

\* one call of run_truthgit_command on any argument vector
NextArgs ==
  \/ /\ ncalls = 0
     /\ \E a \in ArgVectors : run_truthgit_command("t1", a)
  \/ run_truthgit_command_spawn("t1")

SpecArgs == Init /\ [][NextArgs]_vars

\* the handlers that run a validator, and update_settings: one call more than
\* MaxCalls, so that two calls of a validator have an update between them
NextValidators ==
  \E t \in Threads :
    \/ /\ ncalls <= MaxCalls
       /\ \/ \E c \in Commands : check_command_safety(t, c)
          \/ \E c \in Commands, d \in Directories : execute_shell(t, c, d)
          \/ \E a \in SmallArgVectors : run_truthgit_command(t, a)
          \/ \E s \in SettingsValues : update_settings(t, s)
    \/ execute_shell_read_settings(t)
    \/ execute_shell_spawn(t)
    \/ run_truthgit_command_spawn(t)
    \/ update_settings_write(t)
    \/ Return(t)

SpecValidators == Init /\ [][NextValidators]_vars

-----------------------------------------------------------------------------
(* The properties *)

\* the sets as the specification lists them
ShellOperatorSet ==
  { <<";">>,
    <<"&","&">>,
    <<"|","|">>,
    <<"|">>,
    <<"BACKTICK">>,
    <<"$","(">>,
    <<"$","{">>,
    <<"\n">>,
    <<"\r">> }
ForbiddenArgumentPattern ==
  { <<";">>,
    <<"&","&">>,
    <<"|","|">>,
    <<"|">>,
    <<"BACKTICK">>,
    <<"$","(">>,
    <<"$","{">>,
    <<">">>,
    <<"<">>,
    <<"\n">>,
    <<"\r">> }
FORK_BOMB == <<":","(",")","{",":","|",":","&","}",";",":">>  \* ":(){:|:&};:"

ShellCalls == {t \in Threads : op[t] \in {"check_command_safety", "execute_shell"}}
Returned(t) == IsSome(ret[t])
Result(t) == Unwrap(ret[t])

\* s contains p in some letter casing
ContainsAnyCase(s, p) == contains(to_lowercase(s), to_lowercase(p))
HasOperator(s) == \E o \in ShellOperatorSet : contains(s, o)
\* the table entries in lower case
DangerousLowered == {to_lowercase(p) : p \in Range(DANGEROUS_PATTERNS)}
HasDangerousPattern(s) ==
  LET lower == to_lowercase(s)
  IN  \E p \in DangerousLowered : contains(lower, p)
CommandPrefixAllowlist == Range(ALLOWED_COMMAND_PREFIXES)
MatchesPrefix(s) ==
  LET trimmed == trim(s)
  IN  \E e \in CommandPrefixAllowlist : trimmed = e \/ starts_with(trimmed, e)

DangerousFormats ==
  {"BLOCKED: Command contains dangerous pattern '{}'",
   "BLOCKED: Command contains dangerous pattern '{}'. Execution denied."}
NotAllowedFormats ==
  {"Command '{}' is not in the allowed list. Only safe commands are permitted.",
   "BLOCKED: Command '{}' is not in the allowed list. Only truthgit and safe read-only commands are permitted."}

\* the shell validator turned the command of t down: check_command_safety
\* reported it dangerous, execute_shell returned the gate's error and spawned nothing
ShellRejected(t) ==
  /\ Returned(t)
  /\ IF op[t] = "check_command_safety"
     THEN Result(t).val.is_dangerous /\ IsSome(Result(t).val.warning)
     ELSE /\ ~Result(t).ok
          /\ local[t].accepted = None
          /\ \A r \in spawned : r.by # "execute_shell"

\* the shell validator let the command of t through: check_command_safety
\* reported it safe, execute_shell went on to the spawn
ShellAccepted(t) ==
  IF op[t] = "check_command_safety"
  THEN Returned(t) /\ ~Result(t).val.is_dangerous /\ Result(t).val.warning = None
  ELSE /\ local[t].accepted = Some(<<command[t]>>)
       /\ pc[t] \in {"read_settings", "spawn", "done"}
       /\ pc[t] = "done" =>
            \E r \in spawned : r.by = "execute_shell" /\ r.input = <<command[t]>>

\* the message of a rejection by the shell validator
RejectionMessage(t) ==
  IF op[t] = "check_command_safety" THEN Unwrap(Result(t).val.warning)
  ELSE Result(t).val

\* C1: every Command::output() call is made for input that a validator accepted
\* earlier in the same handler call; nothing is spawned for input that was
\* rejected or never validated.
C1_SpawnOnlyAfterValidation ==
  \A r \in spawned : r.accepted = Some(r.input)

\* C2: a command line that contains a shell operator at any position, the first
\* and the last included, is rejected by the shell validator, whatever it
\* starts with.
C2_OperatorAnywhereRejected ==
  \A t \in ShellCalls : HasOperator(command[t]) => ShellRejected(t)

\* C3: for every entry p of the dangerous-pattern table, a command line that
\* contains p in any letter casing and not the token "> /dev/null" is reported
\* as a dangerous-pattern match and rejected.
C3_DangerousPatternAnyCase ==
  \A t \in ShellCalls :
    (HasDangerousPattern(command[t]) /\ ~ContainsAnyCase(command[t], DEV_NULL))
      => /\ ShellRejected(t)
         /\ RejectionMessage(t).fmt \in DangerousFormats

ArgCalls == {t \in Threads : op[t] = "run_truthgit_command"}
HasForbidden(x) == \E p \in ForbiddenArgumentPattern : contains(x, p)

\* the three rules of the structured argument validator, as the specification
\* states them
Acceptable(a) ==
  /\ Len(a) > 0
  /\ a[1] \in Range(ALLOWED_TRUTHGIT_SUBCOMMANDS)
  /\ \A i \in 1..Len(a) : ~HasForbidden(a[i])

\* C4: run_truthgit_command accepts an argument vector exactly when it is not
\* empty, its first element is an allowed subcommand and no element contains a
\* forbidden substring; the tool is spawned only for accepted vectors, and a
\* rejected vector is answered with an error.
C4_ArgsAcceptedIffRules ==
  \A t \in ArgCalls :
    /\ Acceptable(args[t]) <=> local[t].accepted = Some(args[t])
    /\ Acceptable(args[t]) => pc[t] \in {"spawn", "done"}
    /\ ~Acceptable(args[t]) =>
         /\ Returned(t) /\ ~Result(t).ok
         /\ spawned = {}
    /\ \A r \in spawned : r.by = "run_truthgit_command" => Acceptable(r.argv)

\* C4 witness: the tool was spawned for an accepted vector of two arguments
C4_Witness ==
  \E r \in spawned :
    r.by = "run_truthgit_command" /\ Len(r.argv) = 2 /\ r.argv[2] = S_CLAIM

\* C5: a command line whose trimmed form equals an allowed prefix or starts
\* with one, and that contains no shell operator and no dangerous pattern (in
\* any letter casing), is accepted by the shell validator.
C5_AllowedPrefixAccepted ==
  \A t \in ShellCalls :
    (/\ MatchesPrefix(command[t])
     /\ ~HasOperator(command[t])
     /\ ~HasDangerousPattern(command[t]))
      => ShellAccepted(t)

\* C5 witness: the shell was spawned for "git status" given with padding
C5_Witness ==
  \E r \in spawned :
    /\ r.by = "execute_shell"
    /\ r.input[1] # S_GIT_STATUS
    /\ trim(r.input[1]) = S_GIT_STATUS

\* C6: a command line that contains the fork-bomb literal is rejected by the
\* shell validator, also when it contains "> /dev/null" and when it starts with
\* an allowed prefix.
C6_ForkBombRejected ==
  \A t \in ShellCalls : contains(command[t], FORK_BOMB) => ShellRejected(t)

\* C6 witness: execute_shell has rejected "echo <fork bomb> > /dev/null"
C6_Witness ==
  \E t \in Threads :
    /\ op[t] = "execute_shell"
    /\ command[t] = S_ECHO \o FORK_BOMB \o S_TO_DEV_NULL
    /\ Returned(t) /\ ~Result(t).ok

\* C7: a command line that contains "> /dev/null" in any letter casing is never
\* reported as a dangerous-pattern match, whatever dangerous patterns it
\* contains: it is accepted exactly when the operator scan and the prefix
\* allowlist pass.
C7_DevNullSkipsPatternScan ==
  \A t \in ShellCalls :
    ContainsAnyCase(command[t], DEV_NULL) =>
      IF ~HasOperator(trim(command[t])) /\ MatchesPrefix(command[t])
      THEN ShellAccepted(t)
      ELSE /\ ShellRejected(t)
           /\ RejectionMessage(t).fmt \in NotAllowedFormats

\* C7 witness: check_command_safety has reported "echo rm -rf / > /dev/null"
\* as safe
C7_Witness ==
  \E t \in Threads :
    /\ op[t] = "check_command_safety"
    /\ command[t] = S_ECHO \o DANGEROUS_PATTERNS[1] \o S_TO_DEV_NULL
    /\ Returned(t) /\ ~Result(t).val.is_dangerous

\* C8: the structured argument validator reports the first failing rule: an
\* empty vector gets the "No subcommand provided" reason; a first element that
\* is not an allowed subcommand gets the not-allowed reason naming it, also when
\* some element contains a forbidden pattern; otherwise a forbidden pattern in
\* some element gets the forbidden-pattern reason naming a pattern found.
C8_FirstFailingRuleReported ==
  \A t \in ArgCalls :
    /\ Len(args[t]) = 0 =>
         /\ Returned(t) /\ ~Result(t).ok
         /\ Result(t).val = Format("No subcommand provided", <<>>)
    /\ (Len(args[t]) > 0 /\ args[t][1] \notin Range(ALLOWED_TRUTHGIT_SUBCOMMANDS)) =>
         /\ Returned(t) /\ ~Result(t).ok
         /\ Result(t).val.fmt =
              "BLOCKED: TruthGit subcommand '{}' is not allowed. Allowed: {:?}"
         /\ Result(t).val.arg = <<args[t][1], ALLOWED_TRUTHGIT_SUBCOMMANDS>>
    /\ (/\ Len(args[t]) > 0
        /\ args[t][1] \in Range(ALLOWED_TRUTHGIT_SUBCOMMANDS)
        /\ \E i \in 1..Len(args[t]) : HasForbidden(args[t][i])) =>
         /\ Returned(t) /\ ~Result(t).ok
         /\ Result(t).val.fmt =
              "BLOCKED: Argument contains forbidden pattern '{}'. Shell injection attempt detected."
         /\ Result(t).val.arg[1] \in ForbiddenArgumentPattern
         /\ \E i \in 1..Len(args[t]) : contains(args[t][i], Result(t).val.arg[1])

\* C8 witness: a vector whose first element is not allowed and whose second
\* element contains a forbidden pattern was rejected
C8_Witness ==
  \E t \in ArgCalls :
    /\ Len(args[t]) = 2
    /\ args[t][1] = S_INIT
    /\ HasForbidden(args[t][2])
    /\ Returned(t) /\ ~Result(t).ok

\* the rule of the shell validator that turns s down, in the order the rules
\* are applied
FailingRule(s) ==
  IF IsSome(contains_dangerous_pattern(s)) THEN "dangerous"
  ELSE IF HasOperator(trim(s)) THEN "operator"
  ELSE IF ~MatchesPrefix(s) THEN "allowlist"
  ELSE "none"

\* C9: every rejection by the shell validator names the rule that failed and
\* the offending token: a dangerous-pattern rejection names the pattern, an
\* operator rejection is reported as such and not as a failure of the prefix
\* allowlist, an allowlist rejection names the leading token.
C9_RejectionNamesRule ==
  \A t \in ShellCalls :
    ShellRejected(t) =>
      /\ FailingRule(command[t]) = "dangerous" =>
           /\ RejectionMessage(t).fmt \in DangerousFormats
           /\ contains(to_lowercase(command[t]), RejectionMessage(t).arg[1])
      /\ FailingRule(command[t]) = "operator" =>
           RejectionMessage(t).fmt \notin (DangerousFormats \cup NotAllowedFormats)
      /\ FailingRule(command[t]) = "allowlist" =>
           /\ RejectionMessage(t).fmt \in NotAllowedFormats
           /\ RejectionMessage(t).arg = <<leading_token(command[t])>>

\* C10: execute_shell reads SETTINGS at most once per call, and the directory
\* its process starts in is the caller's cwd or the default directory of the
\* settings it read, whatever update_settings did afterwards.
C10_SettingsSnapshot ==
  \A r \in spawned :
    r.by = "execute_shell" =>
      /\ Len(r.seen) <= 1
      /\ IsSome(r.cwd) => (r.seen = <<>> /\ r.current_dir = r.cwd)
      /\ r.cwd = None =>
           /\ Len(r.seen) = 1
           /\ r.current_dir = Some(default_working_dir(r.seen[1]))
      /\ r.program = "bash"
      /\ r.argv = <<ARG_C, r.input[1]>>
      /\ r.accepted = Some(r.input)

\* C10 witness: a shell was spawned after update_settings had replaced the
\* settings the call had read by settings with another default directory
C10_Witness ==
  \E r \in spawned :
    /\ r.by = "execute_shell"
    /\ r.cwd = None
    /\ default_working_dir(r.at_spawn) # default_working_dir(r.seen[1])

\* the handler call of t has returned after its process ran to its end
Exited(t) ==
  /\ Returned(t)
  /\ IsSome(local[t].output)
  /\ Unwrap(local[t].output).started

\* C11: a call of execute_shell or of run_truthgit_command whose process ran
\* and wrote bytes that are not UTF-8 does not fail on them: it returns what it
\* returns for that exit status, with the bad bytes replaced in the text.
C11_OutputDecodedLossily ==
  \A t \in Threads :
    (/\ op[t] \in {"execute_shell", "run_truthgit_command"}
     /\ Exited(t)
     /\ ~Unwrap(local[t].output).utf8)
    => IF op[t] = "execute_shell"
       THEN /\ Result(t).ok
            /\ Result(t).val.stdout = "text with U+FFFD"
            /\ Result(t).val.stderr = "text with U+FFFD"
       ELSE IF Unwrap(local[t].output).code = Some(0)
       THEN Result(t).ok /\ Result(t).val = "text with U+FFFD"
       ELSE ~Result(t).ok /\ Result(t).val.arg = <<"text with U+FFFD">>

\* C12: execute_shell returns an error exactly when the interpreter could not
\* be started; a process that ran is reported by a result that carries its
\* exit code, -1 when there is none, the captured stderr, and success only for
\* exit code 0.
C12_SpawnFailureNotExitStatus ==
  \A t \in Threads :
    (op[t] = "execute_shell" /\ Returned(t) /\ IsSome(local[t].output))
    => LET o == Unwrap(local[t].output)
       IN  IF ~o.started
           THEN /\ ~Result(t).ok
                /\ Result(t).val.fmt = "Failed to execute command: {}"
           ELSE /\ Result(t).ok
                /\ Result(t).val.success = (o.code = Some(0))
                /\ Result(t).val.exit_code = (IF o.code = None THEN -1 ELSE o.code[1])
                /\ Result(t).val.stderr \in {"text", "text with U+FFFD"}

\* C12 witness: a shell that ran and was ended without an exit code is reported
\* with success = false and exit code -1, a shell that exited with 1 likewise
C12_Witness ==
  \E t \in Threads :
    /\ op[t] = "execute_shell"
    /\ Exited(t)
    /\ Unwrap(local[t].output).code \in {None, Some(1)}
    /\ Result(t).ok
    /\ ~Result(t).val.success
    /\ Result(t).val.exit_code \in {-1, 1}

\* q is the parent of the path p: p is q, one separator and one more component
IsParentOf(q, p) ==
  \E k \in 1..(Len(p) - 1) :
    /\ p[k] = "/"
    /\ \A j \in (k + 1)..Len(p) : p[j] # "/"
    /\ q = IF k = 1 THEN <<"/">> ELSE SubSeq(p, 1, k - 1)
\* the paths that have no parent: the empty path and the root
HasNoParent(p) == p \in {<<>>, <<"/">>}

\* C13: the shell of execute_shell is started in the cwd parameter, as given
\* and without a read of the settings, when there is one; otherwise in the
\* parent of the truth_repo_path of the settings the call has read; and in "."
\* when that path has no parent.
C13_WorkingDirectoryOrder ==
  \A r \in spawned :
    r.by = "execute_shell" =>
      IF IsSome(r.cwd)
      THEN r.current_dir = r.cwd /\ r.seen = <<>>
      ELSE /\ Len(r.seen) = 1
           /\ IsSome(r.current_dir)
           /\ IF HasNoParent(r.seen[1].truth_repo_path)
              THEN r.current_dir = Some(<<".">>)
              ELSE IsParentOf(Unwrap(r.current_dir), r.seen[1].truth_repo_path)

\* C13 witness: with no cwd parameter and the settings' truth_repo_path "/",
\* which has no parent, the shell was started in "."
C13_Witness ==
  \E r \in spawned :
    /\ r.by = "execute_shell"
    /\ r.cwd = None
    /\ r.seen = <<AppSettings(S_ROOT, "Local")>>
    /\ r.current_dir = Some(<<".">>)

\* the calls of the handlers that run a validator, and the calls among them
\* whose verdict is known
ValidatorHandlers == {"check_command_safety", "execute_shell", "run_truthgit_command"}
HasVerdict(t) ==
  /\ op[t] \in ValidatorHandlers
  /\ Returned(t) \/ IsSome(local[t].accepted)
\* the verdict of the validator in the call of t
Verdict(t) ==
  IF op[t] = "check_command_safety"
  THEN [allowed |-> ~Result(t).val.is_dangerous, message |-> Result(t).val.warning]
  ELSE IF IsSome(local[t].accepted)
  THEN [allowed |-> TRUE, message |-> None]
  ELSE [allowed |-> FALSE, message |-> Some(Result(t).val)]
\* the step of t in which a validator runs
ValidatorStep(t) == pc[t] = "idle" /\ op'[t] \in ValidatorHandlers

\* C14: two calls of the same validator on the same input have the same
\* verdict, whatever the settings are at either call and whatever calls of
\* update_settings and of the other handlers ran before and between them; and
\* the step in which a validator runs changes no shared state.
C14_ValidatorsPure ==
  /\ [](\A t, u \in Threads :
          (/\ HasVerdict(t)
           /\ HasVerdict(u)
           /\ op[t] = op[u]
           /\ command[t] = command[u]
           /\ args[t] = args[u])
          => Verdict(t) = Verdict(u))
  /\ [][\A t \in Threads :
          ValidatorStep(t) =>
            UNCHANGED <<SETTINGS, settings_file, spawned, requests, lock_readers,
                        audit_files>>]_vars

\* C14 witness: two calls of execute_shell on the same command line hold the
\* verdict of the shell validator, and have read different settings
C14_Witness ==
  \E t, u \in Threads :
    /\ t # u
    /\ op[t] = "execute_shell"
    /\ op[u] = "execute_shell"
    /\ command[t] = command[u]
    /\ HasVerdict(t)
    /\ HasVerdict(u)
    /\ Len(local[t].seen) = 1
    /\ Len(local[u].seen) = 1
    /\ local[t].seen # local[u].seen

\* C15: on every command line the two handlers decide alike.  execute_shell
\* goes on to spawn the shell exactly when check_command_safety reports
\* is_dangerous = false for that line, and refuses exactly when it reports
\* true; check_command_safety reports is_dangerous = true exactly when the gate
\* of execute_shell refuses, and gives a warning exactly when is_dangerous.
C15_CheckAgreesWithGate ==
  \A t \in ShellCalls :
    /\ (op[t] = "check_command_safety" /\ Returned(t)) =>
         /\ Result(t).val.is_dangerous <=> IsSome(execute_shell_gate(command[t]))
         /\ Result(t).val.is_dangerous <=> IsSome(Result(t).val.warning)
    /\ (op[t] = "execute_shell" /\ pc[t] # "idle") =>
         /\ ShellAccepted(t) <=> ~command_check(command[t]).is_dangerous
         /\ ShellRejected(t) <=> command_check(command[t]).is_dangerous

\* C15 witness: execute_shell has spawned the shell for a line that holds a
\* dangerous pattern next to "> /dev/null", which check_command_safety reports
\* as not dangerous
C15_Witness ==
  \E t \in Threads :
    /\ op[t] = "execute_shell"
    /\ pc[t] = "done"
    /\ ShellAccepted(t)
    /\ HasDangerousPattern(command[t])
    /\ ~command_check(command[t]).is_dangerous

\* C16: no allowed subcommand contains a forbidden pattern, so a vector whose
\* first element is an allowed subcommand is turned down by the pattern scan
\* only for a pattern in its second or a later element; the first element
\* never holds the pattern that is reported.
C16_SubcommandScanRedundant ==
  /\ \A s \in Range(ALLOWED_TRUTHGIT_SUBCOMMANDS), p \in Range(BLOCKED_ARG_PATTERNS) :
       ~contains(s, p)
  /\ \A t \in ArgCalls :
       (/\ Returned(t)
        /\ ~Result(t).ok
        /\ local[t].accepted = None
        /\ Result(t).val.fmt =
             "BLOCKED: Argument contains forbidden pattern '{}'. Shell injection attempt detected.")
       => /\ \A p \in Range(BLOCKED_ARG_PATTERNS) : ~contains(args[t][1], p)
          /\ \E i \in 2..Len(args[t]) : contains(args[t][i], Result(t).val.arg[1])

\* C16 witness: a vector with an allowed subcommand and a forbidden pattern in
\* its second element was turned down by the pattern scan
C16_Witness ==
  \E t \in ArgCalls :
    /\ Len(args[t]) = 2
    /\ args[t][1] = ARG_VERIFY
    /\ HasForbidden(args[t][2])
    /\ Returned(t)
    /\ ~Result(t).ok
    /\ Result(t).val.fmt =
         "BLOCKED: Argument contains forbidden pattern '{}'. Shell injection attempt detected."

\* C17: once the settings file has been written and no call of update_settings
\* is between its write of the file and its write of the memory, the file holds
\* the settings that are in memory, which a call of get_settings returns.
C17_FileEqualsMemory ==
  (/\ IsSome(settings_file)
   /\ \A t \in Threads : ~(op[t] = "update_settings" /\ pc[t] = "write_lock"))
  => settings_file = Some(SETTINGS)

\* C18: a call of execute_shell or governance_verify that is about to run, or
\* is running, its process or its remote request holds no read guard of the
\* settings lock; so a call of update_settings that has written the file can
\* always take the write lock and finish.
C18_NoLockWhileRunning ==
  /\ \A t \in Threads :
       (/\ op[t] \in {"execute_shell", "governance_verify"}
        /\ pc[t] \in {"spawn", "dispatch"})
       => t \notin lock_readers
  /\ \A u \in Threads :
       (op[u] = "update_settings" /\ pc[u] = "write_lock")
       => ENABLED update_settings_write(u)

\* C18 witness: one caller has read the settings in execute_shell and is at its
\* spawn, while the other is in update_settings at the write lock
C18_Witness ==
  \E t, u \in Threads :
    /\ op[t] = "execute_shell"
    /\ pc[t] = "spawn"
    /\ Len(local[t].seen) = 1
    /\ op[u] = "update_settings"
    /\ pc[u] = "write_lock"

\* C19: the entry of a call of add_audit_entry that has returned Ok is in the
\* audit file the call wrote, which is what get_audit_trail returns for that
\* repository, whatever other calls of add_audit_entry run with it.
C19_NoAuditEntryLost ==
  \A t \in Threads :
    (op[t] = "add_audit_entry" /\ Returned(t) /\ Result(t).ok)
    => /\ audit_file_exists(audit_dir(t))
       /\ \E i \in DOMAIN audit_files[audit_dir(t)] :
            audit_files[audit_dir(t)][i] = args[t][1]

\* C20: every remote request of governance_verify is sent by a call that read
\* api_mode "remote" from the settings; a call that read "local", the default,
\* sends none and runs the local tool.
C20_RemoteOnlyWhenEnabled ==
  /\ \A q \in requests : q.api_mode = "remote"
  /\ \A t \in Threads :
       (/\ op[t] = "governance_verify"
        /\ Returned(t)
        /\ local[t].seen[1].api_mode = "local")
       => IsSome(local[t].output)

====
